---- MODULE Spec2Model ----
(***************************************************************************)
(* Model of the rescue-proxy execution-layer cache                         *)
(* (src/executionlayer/execution-layer.go).                                *)
(*                                                                         *)
(* The program keeps two indices (minipoolIndex: validator pubkey -> node  *)
(* address, nodeIndex: node address -> nodeInfo) and a block watermark     *)
(* (highestBlock).  Init loads a snapshot pinned at a block, subscribes to *)
(* the log stream and the header stream, back-fills, and starts the        *)
(* ingestor goroutine, which selects over the two channels and the two     *)
(* subscription error channels.  The chain, the two subscriptions and the  *)
(* adapter's failures are the environment.                                 *)
(***************************************************************************)
EXTENDS Integers, Sequences, FiniteSets, TLC

(***************************************************************************)
(* Bounds of the model.                                                    *)
(***************************************************************************)
\* Highest block number the chain reaches.
MaxHead == 4
\* Number of subscription failures the environment injects.
MaxDisconnects == 1
\* Number of failed log re-subscriptions the environment injects.
MaxResubscribeFailures == 1
\* Number of logs in one block.
MaxBlockLogs == 1
\* Highest block number the chain reaches in the shutdown and the retry
\* specifications.
MaxShortHead == 3

\* Highest block number the chain reaches in the specification of the tasks
\* (SpecTasks).
MaxTasksHead == 3

(***************************************************************************)
(* Program constant.                                                       *)
(***************************************************************************)
reconnectRetries == 10
\* make(chan types.Log, 32), make(chan *types.Header, 32)
ChannelCapacity == 32

(***************************************************************************)
(* The universe of on-chain identities.  A minipool has one owner node,    *)
(* one validator pubkey; a node has one deterministic fee distributor.     *)
(***************************************************************************)
Nodes == {"n1", "n2"}
Minipools == {"m1", "m2"}
Pubkeys == {"p1", "p2"}

NoAddress == "nil"
ZeroAddress == "0x0"
SmoothingPoolAddress == "sp"

\* node.GetDistributorAddress: the deterministic per-node distributor.
GetDistributorAddress(n) == IF n = "n1" THEN "f1" ELSE "f2"

\* minipool.GetMinipoolDetails(...).Pubkey: the minipool's validator pubkey.
GetMinipoolPubkey(m) == IF m = "m1" THEN "p1" ELSE "p2"

\* The node that creates minipool m on chain.
MinipoolOwner(m) == IF m = "m1" THEN "n1" ELSE "n2"

Addresses == {ZeroAddress, SmoothingPoolAddress} \cup {GetDistributorAddress(n) : n \in Nodes}

(***************************************************************************)
(* Logs.  A log carries the emitting contract, its topics, its data and    *)
(* its block number, as types.Log does.                                    *)
(***************************************************************************)
NodeManager == "rocketNodeManager"
MinipoolManager == "rocketMinipoolManager"

nodeRegisteredTopic == "NodeRegistered(address,uint256)"
smoothingPoolStatusChangedTopic == "NodeSmoothingPoolStateChanged(address,bool)"
minipoolLaunchedTopic == "MinipoolCreated(address,address,uint256)"

Log(addr, topic0, topic1, topic2, data, blk) ==
    [Address |-> addr, Topic0 |-> topic0, Topic1 |-> topic1, Topic2 |-> topic2,
     Data |-> data, BlockNumber |-> blk]

NodeRegisteredLog(n, blk) == Log(NodeManager, nodeRegisteredTopic, n, NoAddress, 0, blk)
StateChangedLog(n, v, blk) == Log(NodeManager, smoothingPoolStatusChangedTopic, n, NoAddress, v, blk)
MinipoolCreatedLog(m, blk) == Log(MinipoolManager, minipoolLaunchedTopic, m, MinipoolOwner(m), 0, blk)

(***************************************************************************)
(* Sequence and map helpers.                                               *)
(***************************************************************************)
Range(s) == {s[i] : i \in 1..Len(s)}

\* sync.Map.Store: insert or overwrite.
MapStore(m, k, v) == [x \in (DOMAIN m) \cup {k} |-> IF x = k THEN v ELSE m[x]]

EmptyMap == [x \in {} |-> x]

(***************************************************************************)
(* State.                                                                  *)
(***************************************************************************)
VARIABLES
    chain,          \* environment: chain[b] is the sequence of logs of block b
    logSub,         \* environment: state of the log subscription the program holds
    hdrSub,         \* environment: state of the header subscription the program holds
    logPos,         \* environment: last block whose logs the log subscription pushed
    hdrPos,         \* environment: last block whose header the header subscription pushed
    disconnects,    \* environment: subscription failures injected so far
    resubFailures,  \* environment: failed SubscribeFilterLogs calls of the retry loop so far
    events,         \* e.events: the log channel
    newHeaders,     \* e.newHeaders: the header channel
    nodeIndex,      \* e.nodeIndex
    minipoolIndex,  \* e.minipoolIndex
    highestBlock,   \* e.highestBlock (0 while still nil)
    initPc,         \* position of the task running Init
    initResult,     \* what Init returned: "none" (not yet), "ok" (nil), "err"
    ingPc,          \* position of the ingestor goroutine
    attempt,        \* loop variable i of handleSubscriptionError
    loadIdx,        \* number of iterations of Init's loop over the nodes completed
    bfPc,           \* position inside the running backfillEvents call
    bfStop,         \* backfillEvents' local stop (0 before the header is fetched)
    bfLogs,         \* backfillEvents' missedEvents still to be handled
    pinBlock,       \* history: the block the snapshot was pinned at (opts.BlockNumber)
    backfillStop,   \* history: stop of the last completed back-fill
    reconnects,     \* history: completed reconnect back-fills
    fetchFailed,    \* history: a GetMinipoolDetails call of a handler has failed
    fetchFailedBlocks, \* history: the blocks of the events whose GetMinipoolDetails call failed
    backfillQueried, \* history: the last backfillEvents call issued a FilterLogs query
    lastFetchErr,   \* history: the last handleEvent call had its GetMinipoolDetails call fail
    replayed,       \* history: the callers of handleEvent that stored a pubkey already held
    lastRead,       \* the last ValidatorFeeRecipient call and its result
    visited,        \* the node addresses the last ForEachNode call passed to its closure
    shutdown,       \* e.shutdown
    ethclientShutdownCb, \* e.ethclientShutdownCb: 0 (nil) or the subscription pair it unsubscribes
    held,           \* the subscription pair the goroutine holds (0: no goroutine)
    wg,             \* e.wg: the WaitGroup counter
    deinitPc,       \* position of the task running Deinit
    eventsClosed,   \* close(e.events) has run
    newHeadersClosed, \* close(e.newHeaders) has run
    noMoreEvents,   \* the goroutine's local noMoreEvents
    noMoreHeaders,  \* the goroutine's local noMoreHeaders
    shutdownRead,   \* the value the goroutine's last read of e.shutdown (line 269) returned
    received,       \* what the goroutine took in its select and is still handling
    calledCb,       \* the callback Deinit read at line 503 and is running (0: none)
    warnings        \* history: the kinds of warning the event handlers have logged

vars == <<chain, logSub, hdrSub, logPos, hdrPos, disconnects, resubFailures, events, newHeaders,
          nodeIndex, minipoolIndex, highestBlock, initPc, initResult, ingPc, attempt,
          loadIdx, bfPc, bfStop, bfLogs,
          pinBlock, backfillStop, reconnects, fetchFailed, fetchFailedBlocks, backfillQueried,
          lastFetchErr, replayed, lastRead, visited,
          shutdown, ethclientShutdownCb, held, wg, deinitPc, eventsClosed,
          newHeadersClosed, noMoreEvents, noMoreHeaders, shutdownRead, received,
          calledCb, warnings>>

envVars == <<chain, logSub, hdrSub, logPos, hdrPos, disconnects, resubFailures>>
cacheVars == <<nodeIndex, minipoolIndex, highestBlock>>
histVars == <<pinBlock, backfillStop, reconnects, fetchFailed, fetchFailedBlocks, backfillQueried,
              lastFetchErr, replayed>>
backfillVars == <<bfPc, bfStop, bfLogs>>
subVars == <<ethclientShutdownCb, held>>
deinitVars == <<shutdown, deinitPc, eventsClosed, newHeadersClosed, calledCb>>
loopVars == <<wg, noMoreEvents, noMoreHeaders, shutdownRead, received>>

\* The goroutine is at its select, or not in its loop: it holds nothing.
NoReceive == [kind |-> "none"]

(***************************************************************************)
(* The chain.  head is the latest block; FilterLogs returns the logs of an *)
(* inclusive block range in block order.                                   *)
(***************************************************************************)
head == Len(chain)

RECURSIVE FilterLogs(_, _, _)
FilterLogs(c, from, to) ==
    IF from > to THEN <<>> ELSE FilterLogs(c, from, to - 1) \o c[to]

\* On-chain registry state after a sequence of logs (the contracts' own state).
ChainRegistered(logs) ==
    {l.Topic1 : l \in {x \in Range(logs) : x.Topic0 = nodeRegisteredTopic}}

RECURSIVE ChainInPool(_, _)
ChainInPool(logs, n) ==
    IF logs = <<>> THEN FALSE
    ELSE LET l == logs[Len(logs)] IN
         IF l.Topic0 = smoothingPoolStatusChangedTopic /\ l.Topic1 = n
         THEN l.Data = 1
         ELSE ChainInPool(SubSeq(logs, 1, Len(logs) - 1), n)

ChainMinipools(logs) ==
    {l.Topic1 : l \in {x \in Range(logs) : x.Topic0 = minipoolLaunchedTopic}}

\* The logs a transaction can emit in block blk, given the logs of earlier
\* blocks and the logs already in the block: a node registers once (the
\* nodes are named in the order they register), a state change flips the
\* node's current state, a minipool is created once and by a node registered
\* in an earlier block.
NextToRegister(logs) ==
    IF "n1" \notin ChainRegistered(logs) THEN {"n1"} ELSE Nodes \ ChainRegistered(logs)

ValidLogs(prior, inBlock, blk) ==
    LET sofar == prior \o inBlock IN
      {NodeRegisteredLog(n, blk) : n \in NextToRegister(sofar)}
      \cup {StateChangedLog(n, IF ChainInPool(sofar, n) THEN 0 ELSE 1, blk) :
               n \in ChainRegistered(sofar)}
      \cup {MinipoolCreatedLog(m, blk) :
               m \in {x \in Minipools \ ChainMinipools(sofar) :
                         MinipoolOwner(x) \in ChainRegistered(prior)}}

RECURSIVE ValidBlocks(_, _, _)
ValidBlocks(prior, blk, k) ==
    IF k = 0 THEN {<<>>}
    ELSE LET shorter == ValidBlocks(prior, blk, k - 1) IN
         shorter \cup UNION {{Append(b, l) : l \in ValidLogs(prior, b, blk)} : b \in shorter}

(***************************************************************************)
(* The event handlers, as functions of the cache.                          *)
(***************************************************************************)
\* nodeInfo{}: the zero value.
NewNodeInfo == [inSmoothingPool |-> FALSE, feeDistributor |-> ZeroAddress]

\* handleNodeEvent.  A state change of a node that is not in the index fills
\* a local nodeInfo that is never stored, so the index is left as it was.
handleNodeEvent(nodes, event) ==
    IF event.Topic0 = nodeRegisteredTopic
    THEN MapStore(nodes, event.Topic1, NewNodeInfo)
    ELSE IF event.Topic0 = smoothingPoolStatusChangedTopic
    THEN IF event.Topic1 \in DOMAIN nodes
         THEN [nodes EXCEPT ![event.Topic1].inSmoothingPool = (event.Data = 1)]
         ELSE nodes
    ELSE nodes

\* A plausible slip: a failed fetch drops the entries of the event's node
\* instead of leaving the index alone.
handleMinipoolEvent_dropsOnError(minipools, event, fetchErr) ==
    IF event.Topic0 # minipoolLaunchedTopic THEN minipools
    ELSE IF fetchErr
    THEN [p \in {x \in DOMAIN minipools : minipools[x] # event.Topic2} |-> minipools[p]]
    ELSE MapStore(minipools, GetMinipoolPubkey(event.Topic1), event.Topic2)

\* handleMinipoolEvent.  fetchErr: GetMinipoolDetails returned an error.
handleMinipoolEvent(minipools, event, fetchErr) ==
    IF event.Topic0 # minipoolLaunchedTopic THEN minipools
    ELSE IF fetchErr THEN minipools
    ELSE MapStore(minipools, GetMinipoolPubkey(event.Topic1), event.Topic2)

\* A plausible slip: an event of an unknown contract returns before the
\* update of highestBlock.
handleEvent_returnsOnUnknownContract(cache, event, fetchErr) ==
    [nodeIndex |->
        IF event.Address = NodeManager
        THEN handleNodeEvent(cache.nodeIndex, event) ELSE cache.nodeIndex,
     minipoolIndex |->
        IF event.Address # NodeManager /\ event.Address = MinipoolManager
        THEN handleMinipoolEvent(cache.minipoolIndex, event, fetchErr)
        ELSE cache.minipoolIndex,
     highestBlock |->
        IF event.Address \in {NodeManager, MinipoolManager}
        THEN event.BlockNumber ELSE cache.highestBlock]

\* handleEvent on a cache [nodeIndex, minipoolIndex, highestBlock].
handleEvent(cache, event, fetchErr) ==
    [nodeIndex |->
        IF event.Address = NodeManager
        THEN handleNodeEvent(cache.nodeIndex, event) ELSE cache.nodeIndex,
     minipoolIndex |->
        IF event.Address # NodeManager /\ event.Address = MinipoolManager
        THEN handleMinipoolEvent(cache.minipoolIndex, event, fetchErr)
        ELSE cache.minipoolIndex,
     highestBlock |-> event.BlockNumber]

\* The warnings handleEvent logs for an event: an unknown contract, a topic
\* its contract's handler does not know, a state change of an unknown node.
Warnings(nodes, event) ==
    IF event.Address = NodeManager
    THEN IF event.Topic0 = nodeRegisteredTopic THEN {}
         ELSE IF event.Topic0 = smoothingPoolStatusChangedTopic
         THEN IF event.Topic1 \in DOMAIN nodes THEN {} ELSE {"unknown node"}
         ELSE {"unknown topic"}
    ELSE IF event.Address = MinipoolManager
    THEN IF event.Topic0 # minipoolLaunchedTopic THEN {"unknown topic"} ELSE {}
    ELSE {"unknown contract"}

\* for _, event := range missedEvents { e.handleEvent(event) }
\* failing: the minipools whose GetMinipoolDetails call fails during the loop.
RECURSIVE ReplayEvents(_, _, _)
ReplayEvents(cache, logs, failing) ==
    IF logs = <<>> THEN cache
    ELSE ReplayEvents(handleEvent(cache, Head(logs), Head(logs).Topic1 \in failing),
                      Tail(logs), failing)

Cache == [nodeIndex |-> nodeIndex, minipoolIndex |-> minipoolIndex,
          highestBlock |-> highestBlock]

\* Whether handling these logs with these failures made a pubkey fetch fail.
FetchFails(logs, failing) ==
    \E l \in Range(logs) : /\ l.Address = MinipoolManager
                           /\ l.Topic0 = minipoolLaunchedTopic /\ l.Topic1 \in failing

\* Whether handling this event calls minipoolIndex.Store (line 186) for a
\* pubkey the index already holds: the event has been handled before.
StoresHeldPubkey(minipools, event, fetchErr) ==
    /\ event.Address = MinipoolManager /\ event.Topic0 = minipoolLaunchedTopic
    /\ ~fetchErr
    /\ GetMinipoolPubkey(event.Topic1) \in DOMAIN minipools

\* The blocks of the logs whose pubkey fetch failed.
FetchFailsAt(logs, failing) ==
    {l.BlockNumber : l \in {x \in Range(logs) :
                               /\ x.Address = MinipoolManager
                               /\ x.Topic0 = minipoolLaunchedTopic /\ x.Topic1 \in failing}}

\* A plausible slip: the back-fill starts one block too late.
backfillStart_skipsBlock(hb) == hb + 2

\* start := highestBlock + 1
backfillStart(hb) == hb + 1

\* A plausible slip: the gap test is missing.
backfillHasGap_always(hb, stop) == TRUE

\* if stop.Cmp(start) < 0 { return nil }: whether there is a block to fill.
backfillHasGap(hb, stop) == ~(stop < backfillStart(hb))

(***************************************************************************)
(* Initial state: NewExecutionLayer has run, the chain has a genesis block.*)
(***************************************************************************)
NoRead == [called |-> FALSE]

Init ==
    /\ chain = << <<>> >>
    /\ logSub = "none" /\ hdrSub = "none"
    /\ logPos = 0 /\ hdrPos = 0
    /\ disconnects = 0 /\ resubFailures = 0
    /\ events = <<>> /\ newHeaders = <<>>
    /\ nodeIndex = EmptyMap /\ minipoolIndex = EmptyMap
    /\ highestBlock = 0
    /\ initPc = "new" /\ initResult = "none"
    /\ ingPc = "off" /\ attempt = 0
    /\ pinBlock = 0 /\ backfillStop = 0 /\ reconnects = 0
    /\ fetchFailed = FALSE /\ fetchFailedBlocks = {} /\ backfillQueried = FALSE
    /\ lastFetchErr = FALSE /\ replayed = {}
    /\ loadIdx = 0 /\ bfPc = "call" /\ bfStop = 0 /\ bfLogs = <<>>
    /\ lastRead = NoRead /\ visited = {}
    /\ shutdown = FALSE /\ ethclientShutdownCb = 0 /\ held = 0
    /\ wg = 0 /\ deinitPc = "idle"
    /\ eventsClosed = FALSE /\ newHeadersClosed = FALSE
    /\ noMoreEvents = FALSE /\ noMoreHeaders = FALSE /\ shutdownRead = FALSE
    /\ received = NoReceive /\ calledCb = 0
    /\ warnings = {}

(***************************************************************************)
(* Environment: the chain and the two subscriptions.                       *)
(***************************************************************************)
AllLogs == FilterLogs(chain, 1, head)

ProcessAlive == initResult # "err" /\ ingPc # "panic"

\* A new block is appended to the chain.
Mine ==
    /\ head < MaxHead
    /\ ProcessAlive
    /\ \E blk \in ValidBlocks(AllLogs, head + 1, MaxBlockLogs) :
          chain' = Append(chain, blk)
    /\ UNCHANGED warnings
    /\ UNCHANGED <<subVars, deinitVars, loopVars>>
    /\ UNCHANGED <<logSub, hdrSub, logPos, hdrPos, disconnects, resubFailures, events, newHeaders,
                   cacheVars, initPc, initResult, ingPc, attempt, histVars, lastRead, visited>>
    /\ UNCHANGED <<loadIdx, backfillVars>>

\* The log subscription pushes the logs of the next block into e.events.
DeliverLogs ==
    /\ logSub = "live"
    /\ logPos < head
    /\ Len(events) + Len(chain[logPos + 1]) <= ChannelCapacity
    /\ chain[logPos + 1] = <<>> \/ ~eventsClosed
    /\ events' = events \o chain[logPos + 1]
    /\ logPos' = logPos + 1
    /\ UNCHANGED warnings
    /\ UNCHANGED <<subVars, deinitVars, loopVars>>
    /\ UNCHANGED <<chain, logSub, hdrSub, hdrPos, disconnects, resubFailures, newHeaders,
                   cacheVars, initPc, initResult, ingPc, attempt, histVars, lastRead, visited>>
    /\ UNCHANGED <<loadIdx, backfillVars>>

\* The header subscription pushes the next header into e.newHeaders.
DeliverHeader ==
    /\ hdrSub = "live"
    /\ hdrPos < head
    /\ Len(newHeaders) < ChannelCapacity
    /\ ~newHeadersClosed
    /\ newHeaders' = Append(newHeaders, hdrPos + 1)
    /\ hdrPos' = hdrPos + 1
    /\ UNCHANGED warnings
    /\ UNCHANGED <<subVars, deinitVars, loopVars>>
    /\ UNCHANGED <<chain, logSub, hdrSub, logPos, disconnects, resubFailures, events,
                   cacheVars, initPc, initResult, ingPc, attempt, histVars, lastRead, visited>>
    /\ UNCHANGED <<loadIdx, backfillVars>>

\* The connection to the execution client drops: both subscriptions stop
\* delivering and report an error on their Err() channels.
Disconnect ==
    /\ disconnects < MaxDisconnects
    /\ logSub = "live" /\ hdrSub = "live"
    /\ logSub' = "err" /\ hdrSub' = "err"
    /\ disconnects' = disconnects + 1
    /\ UNCHANGED warnings
    /\ UNCHANGED <<subVars, deinitVars, loopVars>>
    /\ UNCHANGED <<chain, logPos, hdrPos, resubFailures, events, newHeaders,
                   cacheVars, initPc, initResult, ingPc, attempt, histVars, lastRead, visited>>
    /\ UNCHANGED <<loadIdx, backfillVars>>

\* A live subscription sends into a channel that Deinit has closed: the
\* send panics and the process terminates.
SendOnClosedChannel ==
    /\ ProcessAlive
    /\ \/ logSub = "live" /\ eventsClosed /\ logPos < head /\ chain[logPos + 1] # <<>>
       \/ hdrSub = "live" /\ newHeadersClosed /\ hdrPos < head
    /\ ingPc' = "panic"
    /\ UNCHANGED warnings
    /\ UNCHANGED <<subVars, deinitVars, loopVars>>
    /\ UNCHANGED <<envVars, events, newHeaders, cacheVars, initPc, initResult, attempt,
                   histVars, lastRead, visited>>
    /\ UNCHANGED <<loadIdx, backfillVars>>

(***************************************************************************)
(* Init: the snapshot.                                                     *)
(***************************************************************************)
\* node.GetNodes at the pinned block, in registration order.
RECURSIVE GetNodes(_)
GetNodes(logs) ==
    IF logs = <<>> THEN <<>>
    ELSE IF Head(logs).Topic0 = nodeRegisteredTopic
         THEN <<Head(logs).Topic1>> \o GetNodes(Tail(logs))
         ELSE GetNodes(Tail(logs))

\* minipool.GetNodeMinipools at the pinned block.
GetNodeMinipools(logs, n) == {m \in ChainMinipools(logs) : MinipoolOwner(m) = n}

\* The indices after the whole loop over the nodes at the pinned block.
LoadedNodes(logs) ==
    [n \in Range(GetNodes(logs)) |->
        [inSmoothingPool |-> ChainInPool(logs, n),
         feeDistributor |-> GetDistributorAddress(n)]]

LoadedMinipools(logs) ==
    LET ms == UNION {GetNodeMinipools(logs, n) : n \in Range(GetNodes(logs))}
    IN [p \in {GetMinipoolPubkey(m) : m \in ms} |->
          MinipoolOwner(CHOOSE m \in ms : GetMinipoolPubkey(m) = p)]

\* The logs up to the pinned block, and the list node.GetNodes returns at it.
PinnedLogs == FilterLogs(chain, 1, pinBlock)
PinnedNodes == GetNodes(PinnedLogs)

\* The first half of one iteration of Init's loop, for node n of the list:
\* GetSmoothingPoolRegistrationState, GetDistributorAddress, then
\* e.nodeIndex.Store(addr, nodeInfo).
LoadNode(nodes, logs, n) ==
    MapStore(nodes, n, [inSmoothingPool |-> ChainInPool(logs, n),
                        feeDistributor |-> GetDistributorAddress(n)])

\* A plausible slip: the minipools are stored under the first node of the
\* list.
LoadMinipools_wrongOwner(minipools, logs, n) ==
    LET new == {GetMinipoolPubkey(m) : m \in GetNodeMinipools(logs, n)} IN
    [p \in (DOMAIN minipools) \cup new |->
        IF p \in new THEN GetNodes(logs)[1] ELSE minipools[p]]

\* The second half of the iteration: GetNodeMinipools, then
\* e.minipoolIndex.Store(minipool.ValidatorPubkey, addr) for each minipool.
LoadMinipools(minipools, logs, n) ==
    LET new == {GetMinipoolPubkey(m) : m \in GetNodeMinipools(logs, n)} IN
    [p \in (DOMAIN minipools) \cup new |-> IF p \in new THEN n ELSE minipools[p]]

\* Init up to its loop: HeaderByNumber pins the block, the three contracts
\* are fetched and GetNodes returns the list of nodes, all at the pinned block.
InitGetNodes ==
    /\ initPc = "new"
    /\ pinBlock' = head
    /\ loadIdx' = 0
    /\ initPc' = IF GetNodes(AllLogs) = <<>> THEN "loaded" ELSE "node"
    /\ UNCHANGED warnings
    /\ UNCHANGED <<subVars, deinitVars, loopVars, backfillVars>>
    /\ UNCHANGED <<envVars, events, newHeaders, cacheVars, initResult, ingPc,
                   attempt, backfillStop, reconnects, fetchFailed, fetchFailedBlocks,
                   backfillQueried, lastFetchErr, replayed, lastRead, visited>>

\* The loop stores the nodeInfo of the next node of the list.
InitLoadNode ==
    /\ initPc = "node"
    /\ nodeIndex' = LoadNode(nodeIndex, PinnedLogs, PinnedNodes[loadIdx + 1])
    /\ initPc' = "minipools"
    /\ UNCHANGED warnings
    /\ UNCHANGED <<subVars, deinitVars, loopVars, backfillVars>>
    /\ UNCHANGED <<envVars, events, newHeaders, minipoolIndex, highestBlock, initResult, ingPc,
                   attempt, loadIdx, histVars, lastRead, visited>>

\* The loop stores the minipools of that node and moves to the next node.
InitLoadMinipools ==
    /\ initPc = "minipools"
    /\ minipoolIndex' = LoadMinipools(minipoolIndex, PinnedLogs, PinnedNodes[loadIdx + 1])
    /\ loadIdx' = loadIdx + 1
    /\ initPc' = IF loadIdx + 1 = Len(PinnedNodes) THEN "loaded" ELSE "node"
    /\ UNCHANGED warnings
    /\ UNCHANGED <<subVars, deinitVars, loopVars, backfillVars>>
    /\ UNCHANGED <<envVars, events, newHeaders, nodeIndex, highestBlock, initResult, ingPc,
                   attempt, histVars, lastRead, visited>>

\* The adapter call Init is waiting for fails (before the loop, or one of the
\* three calls of an iteration): Init returns the error, with what the loop
\* has stored so far left in the indices.
InitSnapshotFails ==
    /\ initPc \in {"new", "node", "minipools"}
    /\ initPc' = "returned"
    /\ initResult' = "err"
    /\ UNCHANGED warnings
    /\ UNCHANGED <<subVars, deinitVars, loopVars, backfillVars>>
    /\ UNCHANGED <<envVars, events, newHeaders, cacheVars, ingPc,
                   attempt, loadIdx, histVars, lastRead, visited>>

(***************************************************************************)
(* Init: ecEventsConnect.  Init ignores its error and returns nil.         *)
(***************************************************************************)
\* e.highestBlock = opts.BlockNumber; SubscribeFilterLogs succeeds.
ConnectSubscribeLogs ==
    /\ initPc = "loaded"
    /\ highestBlock' = pinBlock
    /\ logSub' = "live"
    /\ logPos' = head
    /\ initPc' = "logs"
    /\ UNCHANGED warnings
    /\ UNCHANGED <<subVars, deinitVars, loopVars>>
    /\ UNCHANGED <<chain, hdrSub, hdrPos, disconnects, resubFailures, events, newHeaders, nodeIndex,
                   minipoolIndex, initResult, ingPc, attempt, histVars, lastRead, visited>>
    /\ UNCHANGED <<loadIdx, backfillVars>>

\* SubscribeFilterLogs fails: ecEventsConnect returns the error.
ConnectSubscribeLogsFails ==
    /\ initPc = "loaded"
    /\ highestBlock' = pinBlock
    /\ initPc' = "returned"
    /\ initResult' = "ok"
    /\ UNCHANGED warnings
    /\ UNCHANGED <<subVars, deinitVars, loopVars>>
    /\ UNCHANGED <<envVars, events, newHeaders, nodeIndex, minipoolIndex, ingPc,
                   attempt, histVars, lastRead, visited>>
    /\ UNCHANGED <<loadIdx, backfillVars>>

\* A plausible slip: the goroutine is created as soon as both subscriptions
\* exist, before the initial back-fill.
ConnectSubscribeHeads_spawnsIngestor ==
    /\ initPc = "logs"
    /\ hdrSub' = "live"
    /\ hdrPos' = head
    /\ initPc' = "heads"
    /\ ingPc' = "spawned"
    /\ UNCHANGED warnings
    /\ UNCHANGED <<subVars, deinitVars, loopVars>>
    /\ UNCHANGED <<chain, logSub, logPos, disconnects, resubFailures, events, newHeaders, cacheVars,
                   initResult, attempt, histVars, lastRead, visited>>
    /\ UNCHANGED <<loadIdx, backfillVars>>

\* SubscribeNewHead succeeds.
ConnectSubscribeHeads ==
    /\ initPc = "logs"
    /\ hdrSub' = "live"
    /\ hdrPos' = head
    /\ initPc' = "heads"
    /\ UNCHANGED warnings
    /\ UNCHANGED <<subVars, deinitVars, loopVars>>
    /\ UNCHANGED <<chain, logSub, logPos, disconnects, resubFailures, events, newHeaders, cacheVars,
                   initResult, ingPc, attempt, histVars, lastRead, visited>>
    /\ UNCHANGED <<loadIdx, backfillVars>>

\* SubscribeNewHead fails: ecEventsConnect returns the error.
ConnectSubscribeHeadsFails ==
    /\ initPc = "logs"
    /\ initPc' = "returned"
    /\ initResult' = "ok"
    /\ UNCHANGED warnings
    /\ UNCHANGED <<subVars, deinitVars, loopVars>>
    /\ UNCHANGED <<envVars, events, newHeaders, cacheVars, ingPc, attempt, histVars,
                   lastRead, visited>>
    /\ UNCHANGED <<loadIdx, backfillVars>>

(***************************************************************************)
(* backfillEvents, called by ecEventsConnect (the task of Init) and by      *)
(* handleSubscriptionError (the goroutine): one step per adapter call and   *)
(* per replayed event.                                                      *)
(***************************************************************************)
InBackfill == initPc = "heads" \/ ingPc = "backfill"

\* HeaderByNumber succeeds: stop is the head; without a gap the call returns.
BackfillHeader ==
    /\ InBackfill /\ bfPc = "call"
    /\ bfStop' = head
    /\ bfPc' = IF backfillHasGap(highestBlock, head) THEN "filter" ELSE "return"
    /\ backfillQueried' = FALSE
    /\ UNCHANGED <<warnings, bfLogs, loadIdx>>
    /\ UNCHANGED <<subVars, deinitVars, loopVars>>
    /\ UNCHANGED <<envVars, events, newHeaders, cacheVars, initPc, initResult, ingPc, attempt,
                   pinBlock, backfillStop, reconnects, fetchFailed, fetchFailedBlocks,
                   lastFetchErr, replayed, lastRead, visited>>

\* FilterLogs succeeds: missedEvents are the logs of start..stop.
BackfillFilterLogs ==
    /\ InBackfill /\ bfPc = "filter"
    /\ bfLogs' = FilterLogs(chain, backfillStart(highestBlock), bfStop)
    /\ bfPc' = "replay"
    /\ backfillQueried' = TRUE
    /\ UNCHANGED <<warnings, bfStop, loadIdx>>
    /\ UNCHANGED <<subVars, deinitVars, loopVars>>
    /\ UNCHANGED <<envVars, events, newHeaders, cacheVars, initPc, initResult, ingPc, attempt,
                   pinBlock, backfillStop, reconnects, fetchFailed, fetchFailedBlocks,
                   lastFetchErr, replayed, lastRead, visited>>

\* for _, event := range missedEvents { e.handleEvent(event) }: one event.
BackfillHandleEvent ==
    /\ InBackfill /\ bfPc = "replay"
    /\ bfLogs # <<>>
    /\ \E fetchErr \in BOOLEAN :
          LET ev == Head(bfLogs)
              after == handleEvent(Cache, ev, fetchErr)
          IN /\ nodeIndex' = after.nodeIndex
             /\ minipoolIndex' = after.minipoolIndex
             /\ highestBlock' = after.highestBlock
             /\ fetchFailed' = (fetchFailed \/ FetchFails(<<ev>>, IF fetchErr THEN Minipools ELSE {}))
             /\ fetchFailedBlocks' = fetchFailedBlocks
                   \cup FetchFailsAt(<<ev>>, IF fetchErr THEN Minipools ELSE {})
             /\ lastFetchErr' = FetchFails(<<ev>>, IF fetchErr THEN Minipools ELSE {})
             /\ replayed' = replayed \cup
                   (IF StoresHeldPubkey(minipoolIndex, ev, fetchErr) THEN {"backfill"} ELSE {})
             /\ warnings' = warnings \cup Warnings(nodeIndex, ev)
    /\ bfLogs' = Tail(bfLogs)
    /\ UNCHANGED <<bfPc, bfStop, loadIdx>>
    /\ UNCHANGED <<subVars, deinitVars, loopVars>>
    /\ UNCHANGED <<envVars, events, newHeaders, initPc, initResult, ingPc, attempt, pinBlock,
                   backfillStop, reconnects, backfillQueried, lastRead, visited>>

\* e.highestBlock = stop, after the last event.
BackfillFinish ==
    /\ InBackfill /\ bfPc = "replay"
    /\ bfLogs = <<>>
    /\ highestBlock' = bfStop
    /\ bfPc' = "return"
    /\ UNCHANGED <<warnings, bfStop, bfLogs, loadIdx>>
    /\ UNCHANGED <<subVars, deinitVars, loopVars>>
    /\ UNCHANGED <<envVars, events, newHeaders, nodeIndex, minipoolIndex, initPc, initResult,
                   ingPc, attempt, histVars, lastRead, visited>>

\* backfillEvents has returned nil to ecEventsConnect: the unsubscribe
\* callback is stored and the goroutine is created, holding the two
\* subscriptions.
ConnectBackfill ==
    /\ initPc = "heads" /\ bfPc = "return"
    /\ backfillStop' = bfStop
    /\ ethclientShutdownCb' = 1
    /\ held' = 1
    /\ ingPc' = "spawned"
    /\ initPc' = "spawned"
    /\ bfPc' = "call" /\ bfStop' = 0
    /\ UNCHANGED <<warnings, bfLogs, loadIdx>>
    /\ UNCHANGED <<deinitVars, loopVars>>
    /\ UNCHANGED <<envVars, events, newHeaders, cacheVars, initResult, attempt, pinBlock,
                   reconnects, fetchFailed, fetchFailedBlocks, backfillQueried, lastFetchErr, replayed,
                   lastRead, visited>>

\* ecEventsConnect returns nil and Init returns nil.
InitReturn ==
    /\ initPc = "spawned"
    /\ initPc' = "returned"
    /\ initResult' = "ok"
    /\ UNCHANGED <<warnings, loadIdx, backfillVars>>
    /\ UNCHANGED <<subVars, deinitVars, loopVars>>
    /\ UNCHANGED <<envVars, events, newHeaders, cacheVars, ingPc, attempt, histVars,
                   lastRead, visited>>

\* HeaderByNumber or FilterLogs fails: backfillEvents and ecEventsConnect
\* return the error, which Init ignores.
ConnectBackfillFails ==
    /\ initPc = "heads" /\ bfPc \in {"call", "filter"}
    /\ backfillQueried' = (bfPc = "filter")
    /\ initPc' = "returned"
    /\ initResult' = "ok"
    /\ bfPc' = "call" /\ bfStop' = 0
    /\ UNCHANGED <<warnings, bfLogs, loadIdx>>
    /\ UNCHANGED <<subVars, deinitVars, loopVars>>
    /\ UNCHANGED <<envVars, events, newHeaders, cacheVars, ingPc, attempt, pinBlock,
                   backfillStop, reconnects, fetchFailed, fetchFailedBlocks, lastFetchErr, replayed,
                   lastRead, visited>>

(***************************************************************************)
(* The ingestor goroutine: one action per case of its select.              *)
(***************************************************************************)
\* The goroutine's first statement: e.wg.Add(1).
IngestorStart ==
    /\ ingPc = "spawned"
    /\ wg' = wg + 1
    /\ ingPc' = "select"
    /\ UNCHANGED warnings
    /\ UNCHANGED <<subVars, deinitVars, noMoreEvents, noMoreHeaders, shutdownRead, received>>
    /\ UNCHANGED <<envVars, events, newHeaders, cacheVars, initPc, initResult, attempt,
                   histVars, lastRead, visited>>
    /\ UNCHANGED <<loadIdx, backfillVars>>

\* case event, ok := <-e.events (ok): the goroutine takes the event out of
\* the channel and calls handleEvent, which waits in an adapter call
\* (GetMinipoolDetails, GetDistributorAddress) before it writes.
ReceiveEvent ==
    /\ ingPc = "select"
    /\ events # <<>>
    /\ received' = [kind |-> "event", event |-> Head(events)]
    /\ events' = Tail(events)
    /\ ingPc' = "event"
    /\ UNCHANGED warnings
    /\ UNCHANGED <<subVars, deinitVars, wg, noMoreEvents, noMoreHeaders, shutdownRead>>
    /\ UNCHANGED <<envVars, newHeaders, cacheVars, initPc, initResult, attempt, histVars,
                   lastRead, visited>>
    /\ UNCHANGED <<loadIdx, backfillVars>>

\* e.handleEvent(event) on the event received: the writes of the handler and
\* of line 207.
IngestEvent ==
    /\ ingPc = "event"
    /\ \E fetchErr \in BOOLEAN :
          LET ev == received.event
              after == handleEvent(Cache, ev, fetchErr)
          IN /\ nodeIndex' = after.nodeIndex
             /\ minipoolIndex' = after.minipoolIndex
             /\ highestBlock' = after.highestBlock
             /\ fetchFailed' = (fetchFailed \/ FetchFails(<<ev>>, IF fetchErr THEN Minipools ELSE {}))
             /\ fetchFailedBlocks' = fetchFailedBlocks
                   \cup FetchFailsAt(<<ev>>, IF fetchErr THEN Minipools ELSE {})
             /\ lastFetchErr' = FetchFails(<<ev>>, IF fetchErr THEN Minipools ELSE {})
             /\ replayed' = replayed \cup
                   (IF StoresHeldPubkey(minipoolIndex, ev, fetchErr) THEN {"channel"} ELSE {})
             /\ warnings' = warnings \cup Warnings(nodeIndex, ev)
    /\ received' = NoReceive
    /\ ingPc' = "select"
    /\ UNCHANGED <<subVars, deinitVars, wg, noMoreEvents, noMoreHeaders, shutdownRead>>
    /\ UNCHANGED <<envVars, events, newHeaders, initPc, initResult, attempt, pinBlock,
                   backfillStop, reconnects, backfillQueried, lastRead, visited>>
    /\ UNCHANGED <<loadIdx, backfillVars>>

\* The header case's update of highestBlock.
handleHeader(hb, number) == IF hb >= number THEN hb ELSE number

\* case newHeader, ok := <-e.newHeaders (ok).
IngestHeader ==
    /\ ingPc = "select"
    /\ newHeaders # <<>>
    /\ highestBlock' = handleHeader(highestBlock, Head(newHeaders))
    /\ newHeaders' = Tail(newHeaders)
    /\ UNCHANGED warnings
    /\ UNCHANGED <<subVars, deinitVars, loopVars>>
    /\ UNCHANGED <<envVars, events, nodeIndex, minipoolIndex, initPc, initResult, ingPc,
                   attempt, histVars, lastRead, visited>>
    /\ UNCHANGED <<loadIdx, backfillVars>>

\* The goroutine has received something Deinit produced after it wrote
\* e.shutdown (line 502): the close of e.events or e.newHeaders (504, 505),
\* or the close of an Err() channel by Deinit's Unsubscribe (503), not an
\* error the subscription itself reported; or it has read the flag as set
\* before.  A read of the flag that follows is ordered after the write.
ShutdownOrdered ==
    \/ noMoreEvents \/ noMoreHeaders
    \/ shutdownRead
    \/ (received.kind = "err" /\ received.close)

\* The values the goroutine's read of e.shutdown can return.  Deinit writes
\* the flag without synchronisation: for an error the subscription itself
\* reported, received by a goroutine that has not yet received anything from
\* Deinit, the read may still return the old value.
ShutdownReads ==
    {shutdown} \cup (IF shutdown /\ ~ShutdownOrdered THEN {FALSE} ELSE {})

\* A plausible slip: the flag is not checked.
handleSubscriptionErrorEntry_noShutdownCheck(shutdownRead_) == "retry"

\* if e.shutdown { return }
handleSubscriptionErrorEntry(shutdownRead_) == IF shutdownRead_ THEN "return" ELSE "retry"

\* Unsubscribe: a subscription that has reported an error keeps it.
Unsubscribe(sub) == IF sub = "live" THEN "closed" ELSE sub

\* case err := <-(*logSubscription).Err() or <-(*newHeadSubscription).Err():
\* the goroutine receives the error the subscription reported, or the zero
\* value of a closed Err() channel; a reported error is consumed.
ReceiveSubscriptionError ==
    /\ ingPc = "select"
    /\ \/ /\ logSub \in {"err", "closed"}
          /\ received' = [kind |-> "err", sub |-> "log", close |-> (logSub = "closed")]
          /\ logSub' = "closed" /\ hdrSub' = hdrSub
       \/ /\ hdrSub \in {"err", "closed"}
          /\ received' = [kind |-> "err", sub |-> "hdr", close |-> (hdrSub = "closed")]
          /\ hdrSub' = "closed" /\ logSub' = logSub
    /\ ingPc' = "unsubscribe"
    /\ UNCHANGED warnings
    /\ UNCHANGED <<subVars, deinitVars, wg, noMoreEvents, noMoreHeaders, shutdownRead>>
    /\ UNCHANGED <<chain, logPos, hdrPos, disconnects, resubFailures, events, newHeaders,
                   cacheVars, initPc, initResult, attempt, histVars, lastRead, visited>>
    /\ UNCHANGED <<loadIdx, backfillVars>>

\* (*newHeadSubscription).Unsubscribe() or (*logSubscription).Unsubscribe():
\* the case unsubscribes the other subscription before it calls
\* handleSubscriptionError.
UnsubscribeOther ==
    /\ ingPc = "unsubscribe"
    /\ IF received.sub = "log"
       THEN hdrSub' = Unsubscribe(hdrSub) /\ logSub' = logSub
       ELSE logSub' = Unsubscribe(logSub) /\ hdrSub' = hdrSub
    /\ ingPc' = "entry"
    /\ UNCHANGED warnings
    /\ UNCHANGED <<subVars, deinitVars, loopVars>>
    /\ UNCHANGED <<chain, logPos, hdrPos, disconnects, resubFailures, events, newHeaders,
                   cacheVars, initPc, initResult, attempt, histVars, lastRead, visited>>
    /\ UNCHANGED <<loadIdx, backfillVars>>

\* handleSubscriptionError with e.shutdown read as false: it starts its
\* retry loop.
HandleSubscriptionError ==
    /\ ingPc = "entry"
    /\ \E r \in ShutdownReads :
          /\ handleSubscriptionErrorEntry(r) = "retry"
          /\ shutdownRead' = r
    /\ received' = NoReceive
    /\ ingPc' = "reconnect"
    /\ attempt' = 0
    /\ UNCHANGED warnings
    /\ UNCHANGED <<subVars, deinitVars, wg, noMoreEvents, noMoreHeaders>>
    /\ UNCHANGED <<envVars, events, newHeaders, cacheVars,
                   initPc, initResult, histVars, lastRead, visited>>
    /\ UNCHANGED <<loadIdx, backfillVars>>

\* One iteration of the loop in which SubscribeFilterLogs fails.
ResubscribeAttemptFails ==
    /\ ingPc = "reconnect"
    /\ resubFailures' = resubFailures + 1
    /\ attempt' = attempt + 1
    /\ ingPc' = IF attempt + 1 < reconnectRetries THEN "reconnect" ELSE "panic"
    /\ UNCHANGED warnings
    /\ UNCHANGED <<subVars, deinitVars, loopVars>>
    /\ UNCHANGED <<chain, logSub, hdrSub, logPos, hdrPos, disconnects, events, newHeaders,
                   cacheVars, initPc, initResult, histVars, lastRead, visited>>
    /\ UNCHANGED <<loadIdx, backfillVars>>

\* The same, with the environment's failures bounded.
ResubscribeFails ==
    /\ resubFailures < MaxResubscribeFailures
    /\ ResubscribeAttemptFails

\* SubscribeFilterLogs of an attempt succeeds: the new log subscription
\* delivers into e.events from now on.
ResubscribeLogs ==
    /\ ingPc = "reconnect"
    /\ logSub' = "live"
    /\ logPos' = head
    /\ ingPc' = "resubscribed"
    /\ UNCHANGED warnings
    /\ UNCHANGED <<subVars, deinitVars, loopVars>>
    /\ UNCHANGED <<loadIdx, backfillVars>>
    /\ UNCHANGED <<chain, hdrSub, hdrPos, disconnects, resubFailures, events, newHeaders, cacheVars,
                   initPc, initResult, attempt, histVars, lastRead, visited>>

\* SubscribeNewHead of that attempt fails: break, then Panic.
ResubscribeHeadsFails ==
    /\ ingPc = "resubscribed"
    /\ ingPc' = "panic"
    /\ UNCHANGED warnings
    /\ UNCHANGED <<subVars, deinitVars, loopVars>>
    /\ UNCHANGED <<loadIdx, backfillVars>>
    /\ UNCHANGED <<envVars, events, newHeaders, cacheVars,
                   initPc, initResult, attempt, histVars, lastRead, visited>>

\* SubscribeNewHead of that attempt succeeds, and the unsubscribe callback is
\* replaced by one for the new pair.
ResubscribeHeads ==
    /\ ingPc = "resubscribed"
    /\ hdrSub' = "live"
    /\ hdrPos' = head
    /\ ingPc' = "backfill"
    /\ attempt' = 0
    /\ ethclientShutdownCb' = held + 1
    /\ UNCHANGED warnings
    /\ UNCHANGED <<held, deinitVars, loopVars>>
    /\ UNCHANGED <<loadIdx, backfillVars>>
    /\ UNCHANGED <<chain, logSub, logPos, disconnects, resubFailures, events, newHeaders, cacheVars,
                   initPc, initResult, histVars, lastRead, visited>>

\* backfillEvents has returned nil to handleSubscriptionError: the
\* goroutine's two subscription pointers are overwritten and the select loop
\* resumes.
ReconnectBackfill ==
    /\ ingPc = "backfill" /\ bfPc = "return"
    /\ backfillStop' = bfStop
    /\ reconnects' = reconnects + 1
    /\ held' = held + 1
    /\ ingPc' = "select"
    /\ bfPc' = "call" /\ bfStop' = 0
    /\ UNCHANGED <<warnings, bfLogs, loadIdx>>
    /\ UNCHANGED <<ethclientShutdownCb, deinitVars, loopVars>>
    /\ UNCHANGED <<envVars, events, newHeaders, cacheVars, initPc, initResult, attempt, pinBlock,
                   fetchFailed, fetchFailedBlocks, backfillQueried, lastFetchErr, replayed,
                   lastRead, visited>>

\* HeaderByNumber or FilterLogs of that back-fill fails: Panic.
ReconnectBackfillFails ==
    /\ ingPc = "backfill" /\ bfPc \in {"call", "filter"}
    /\ backfillQueried' = (bfPc = "filter")
    /\ ingPc' = "panic"
    /\ bfPc' = "call" /\ bfStop' = 0
    /\ UNCHANGED <<warnings, bfLogs, loadIdx>>
    /\ UNCHANGED <<subVars, deinitVars, loopVars>>
    /\ UNCHANGED <<envVars, events, newHeaders, cacheVars, initPc, initResult, attempt,
                   pinBlock, backfillStop, reconnects, fetchFailed, fetchFailedBlocks,
                   lastFetchErr, replayed, lastRead, visited>>

\* if noMoreEvents && noMoreHeaders { break }; e.wg.Done()
LoopExit(noEvents, noHeaders) ==
    IF noEvents /\ noHeaders
    THEN ingPc' = "done" /\ wg' = wg - 1
    ELSE ingPc' = "select" /\ wg' = wg

\* handleSubscriptionError with e.shutdown read as true: it returns at once,
\* and the loop goes on to its exit test.
HandleSubscriptionErrorShutdown ==
    /\ ingPc = "entry"
    /\ \E r \in ShutdownReads :
          /\ handleSubscriptionErrorEntry(r) = "return"
          /\ shutdownRead' = r
    /\ received' = NoReceive
    /\ LoopExit(noMoreEvents, noMoreHeaders)
    /\ UNCHANGED warnings
    /\ UNCHANGED <<subVars, deinitVars, noMoreEvents, noMoreHeaders>>
    /\ UNCHANGED <<envVars, events, newHeaders,
                   cacheVars, initPc, initResult, attempt, histVars, lastRead, visited>>
    /\ UNCHANGED <<loadIdx, backfillVars>>

\* case event, ok := <-e.events with ok false: the channel is closed and
\* drained.
ObserveEventsClosed ==
    /\ ingPc = "select"
    /\ eventsClosed /\ events = <<>>
    /\ noMoreEvents' = TRUE
    /\ LoopExit(TRUE, noMoreHeaders)
    /\ UNCHANGED warnings
    /\ UNCHANGED <<subVars, deinitVars, noMoreHeaders, shutdownRead, received>>
    /\ UNCHANGED <<envVars, events, newHeaders, cacheVars, initPc, initResult, attempt,
                   histVars, lastRead, visited>>
    /\ UNCHANGED <<loadIdx, backfillVars>>

\* case newHeader, ok := <-e.newHeaders with ok false.
ObserveHeadersClosed ==
    /\ ingPc = "select"
    /\ newHeadersClosed /\ newHeaders = <<>>
    /\ noMoreHeaders' = TRUE
    /\ LoopExit(noMoreEvents, TRUE)
    /\ UNCHANGED warnings
    /\ UNCHANGED <<subVars, deinitVars, noMoreEvents, shutdownRead, received>>
    /\ UNCHANGED <<envVars, events, newHeaders, cacheVars, initPc, initResult, attempt,
                   histVars, lastRead, visited>>
    /\ UNCHANGED <<loadIdx, backfillVars>>

(***************************************************************************)
(* Deinit, called by the task that called Init, after Init has returned.   *)
(***************************************************************************)
\* if e.ethclientShutdownCb == nil { return }
DeinitNoCallback ==
    /\ deinitPc = "idle"
    /\ initPc = "returned"
    /\ ethclientShutdownCb = 0
    /\ deinitPc' = "returned"
    /\ UNCHANGED warnings
    /\ UNCHANGED <<subVars, calledCb, shutdown, eventsClosed, newHeadersClosed, loopVars>>
    /\ UNCHANGED <<envVars, events, newHeaders, cacheVars, initPc, initResult, ingPc,
                   attempt, histVars, lastRead, visited>>
    /\ UNCHANGED <<loadIdx, backfillVars>>

\* e.shutdown = true
DeinitSetShutdown ==
    /\ deinitPc = "idle"
    /\ initPc = "returned"
    /\ ingPc # "panic"
    /\ ethclientShutdownCb # 0
    /\ shutdown' = TRUE
    /\ deinitPc' = "shutdown"
    /\ UNCHANGED warnings
    /\ UNCHANGED <<subVars, calledCb, eventsClosed, newHeadersClosed, loopVars>>
    /\ UNCHANGED <<envVars, events, newHeaders, cacheVars, initPc, initResult, ingPc,
                   attempt, histVars, lastRead, visited>>
    /\ UNCHANGED <<loadIdx, backfillVars>>

\* The values Deinit's read of e.ethclientShutdownCb can return: the
\* goroutine replaces the callback in handleSubscriptionError without
\* synchronisation, so the read may still return an earlier callback.
CallbackReads == 1..ethclientShutdownCb

\* The pair the current log subscription and the current header subscription
\* belong to: the pair the goroutine holds, or, inside handleSubscriptionError
\* once the subscription has been made again, the next pair.
LogSubPair == IF ingPc \in {"resubscribed", "backfill"} THEN held + 1 ELSE held
HdrSubPair == IF ingPc = "backfill" THEN held + 1 ELSE held

\* e.ethclientShutdownCb(): Deinit reads the callback and the callback makes
\* its first call, the Unsubscribe of its pair's log subscription.
DeinitUnsubscribeLogs ==
    /\ deinitPc = "shutdown"
    /\ ingPc # "panic"
    /\ \E cb \in CallbackReads :
          /\ calledCb' = cb
          /\ logSub' = IF cb = LogSubPair THEN Unsubscribe(logSub) ELSE logSub
    /\ deinitPc' = "unsubscribedLogs"
    /\ UNCHANGED warnings
    /\ UNCHANGED <<subVars, shutdown, eventsClosed, newHeadersClosed, loopVars>>
    /\ UNCHANGED <<chain, hdrSub, logPos, hdrPos, disconnects, resubFailures, events, newHeaders,
                   cacheVars, initPc, initResult, ingPc, attempt, histVars, lastRead, visited>>
    /\ UNCHANGED <<loadIdx, backfillVars>>

\* The callback's second call, the Unsubscribe of its pair's header
\* subscription; the callback returns.
DeinitUnsubscribeHeads ==
    /\ deinitPc = "unsubscribedLogs"
    /\ ingPc # "panic"
    /\ hdrSub' = IF calledCb = HdrSubPair THEN Unsubscribe(hdrSub) ELSE hdrSub
    /\ calledCb' = 0
    /\ deinitPc' = "unsubscribed"
    /\ UNCHANGED warnings
    /\ UNCHANGED <<subVars, shutdown, eventsClosed, newHeadersClosed, loopVars>>
    /\ UNCHANGED <<chain, logSub, logPos, hdrPos, disconnects, resubFailures, events, newHeaders,
                   cacheVars, initPc, initResult, ingPc, attempt, histVars, lastRead, visited>>
    /\ UNCHANGED <<loadIdx, backfillVars>>

\* close(e.events)
DeinitCloseEvents ==
    /\ deinitPc = "unsubscribed"
    /\ ingPc # "panic"
    /\ eventsClosed' = TRUE
    /\ deinitPc' = "closedEvents"
    /\ UNCHANGED warnings
    /\ UNCHANGED <<subVars, calledCb, shutdown, newHeadersClosed, loopVars>>
    /\ UNCHANGED <<envVars, events, newHeaders, cacheVars, initPc, initResult, ingPc,
                   attempt, histVars, lastRead, visited>>
    /\ UNCHANGED <<loadIdx, backfillVars>>

\* close(e.newHeaders)
DeinitCloseHeaders ==
    /\ deinitPc = "closedEvents"
    /\ ingPc # "panic"
    /\ newHeadersClosed' = TRUE
    /\ deinitPc' = "wait"
    /\ UNCHANGED warnings
    /\ UNCHANGED <<subVars, calledCb, shutdown, eventsClosed, loopVars>>
    /\ UNCHANGED <<envVars, events, newHeaders, cacheVars, initPc, initResult, ingPc,
                   attempt, histVars, lastRead, visited>>
    /\ UNCHANGED <<loadIdx, backfillVars>>

\* e.wg.Wait() returns: the counter is zero.
DeinitWait ==
    /\ deinitPc = "wait"
    /\ ingPc # "panic"
    /\ wg = 0
    /\ deinitPc' = "returned"
    /\ UNCHANGED warnings
    /\ UNCHANGED <<subVars, calledCb, shutdown, eventsClosed, newHeadersClosed, loopVars>>
    /\ UNCHANGED <<envVars, events, newHeaders, cacheVars, initPc, initResult, ingPc,
                   attempt, histVars, lastRead, visited>>
    /\ UNCHANGED <<loadIdx, backfillVars>>

Next ==
    \/ Mine \/ DeliverLogs \/ DeliverHeader \/ Disconnect
    \/ InitGetNodes \/ InitLoadNode \/ InitLoadMinipools \/ InitSnapshotFails
    \/ ConnectSubscribeLogs \/ ConnectSubscribeLogsFails
    \/ ConnectSubscribeHeads \/ ConnectSubscribeHeadsFails
    \/ BackfillHeader \/ BackfillFilterLogs \/ BackfillHandleEvent \/ BackfillFinish
    \/ ConnectBackfill \/ ConnectBackfillFails \/ InitReturn
    \/ IngestorStart \/ ReceiveEvent \/ IngestEvent \/ IngestHeader
    \/ ReceiveSubscriptionError \/ UnsubscribeOther \/ HandleSubscriptionError
    \/ ResubscribeFails \/ ResubscribeLogs \/ ResubscribeHeadsFails \/ ResubscribeHeads
    \/ ReconnectBackfill \/ ReconnectBackfillFails

Spec == Init /\ [][Next]_vars

(***************************************************************************)
(* The program with its shutdown: the same tasks on a shorter chain, and   *)
(* the task that calls Deinit.                                             *)
(***************************************************************************)
MineShort == head < MaxShortHead /\ Mine

NextShutdown ==
    \/ MineShort \/ DeliverLogs \/ DeliverHeader \/ Disconnect \/ SendOnClosedChannel
    \/ InitGetNodes \/ InitLoadNode \/ InitLoadMinipools \/ InitSnapshotFails
    \/ ConnectSubscribeLogs \/ ConnectSubscribeLogsFails
    \/ ConnectSubscribeHeads \/ ConnectSubscribeHeadsFails
    \/ BackfillHeader \/ BackfillFilterLogs \/ BackfillHandleEvent \/ BackfillFinish
    \/ ConnectBackfill \/ ConnectBackfillFails \/ InitReturn
    \/ IngestorStart \/ ReceiveEvent \/ IngestEvent \/ IngestHeader
    \/ ReceiveSubscriptionError \/ UnsubscribeOther
    \/ HandleSubscriptionError \/ HandleSubscriptionErrorShutdown
    \/ ObserveEventsClosed \/ ObserveHeadersClosed
    \/ ResubscribeFails \/ ResubscribeLogs \/ ResubscribeHeadsFails \/ ResubscribeHeads
    \/ ReconnectBackfill \/ ReconnectBackfillFails
    \/ DeinitNoCallback \/ DeinitSetShutdown
    \/ DeinitUnsubscribeLogs \/ DeinitUnsubscribeHeads
    \/ DeinitCloseEvents \/ DeinitCloseHeaders \/ DeinitWait

SpecShutdown == Init /\ [][NextShutdown]_vars

\* The same with the scheduling the Go runtime gives: the goroutine and the
\* caller of Deinit keep running (weak fairness of their steps, the adapter
\* calls made inside handleEvent and handleSubscriptionError eventually
\* returning), and a select case that is ready again and again is
\* eventually chosen, select picking among the ready cases at random (strong
\* fairness of the cases: the goroutine leaves the select between two
\* passes).
ReconnectorStep ==
    \/ ResubscribeFails \/ ResubscribeLogs \/ ResubscribeHeadsFails \/ ResubscribeHeads
    \/ (ingPc = "backfill" /\ (\/ BackfillHeader \/ BackfillFilterLogs
                               \/ BackfillHandleEvent \/ BackfillFinish))
    \/ ReconnectBackfill \/ ReconnectBackfillFails

SpecShutdownFair ==
    /\ SpecShutdown
    /\ WF_vars(IngestorStart)
    /\ SF_vars(ReceiveEvent) /\ SF_vars(IngestHeader)
    /\ SF_vars(ObserveEventsClosed) /\ SF_vars(ObserveHeadersClosed)
    /\ SF_vars(ReceiveSubscriptionError)
    /\ WF_vars(IngestEvent) /\ WF_vars(UnsubscribeOther)
    /\ WF_vars(HandleSubscriptionError \/ HandleSubscriptionErrorShutdown)
    /\ WF_vars(ReconnectorStep)
    /\ WF_vars(DeinitWait)

(***************************************************************************)
(* The program with every failure of the retry loop: the same tasks on a   *)
(* shorter chain, with no bound on the failed re-subscriptions.            *)
(***************************************************************************)
NextReconnect ==
    \/ MineShort \/ DeliverLogs \/ DeliverHeader \/ Disconnect
    \/ InitGetNodes \/ InitLoadNode \/ InitLoadMinipools \/ InitSnapshotFails
    \/ ConnectSubscribeLogs \/ ConnectSubscribeLogsFails
    \/ ConnectSubscribeHeads \/ ConnectSubscribeHeadsFails
    \/ BackfillHeader \/ BackfillFilterLogs \/ BackfillHandleEvent \/ BackfillFinish
    \/ ConnectBackfill \/ ConnectBackfillFails \/ InitReturn
    \/ IngestorStart \/ ReceiveEvent \/ IngestEvent \/ IngestHeader
    \/ ReceiveSubscriptionError \/ UnsubscribeOther \/ HandleSubscriptionError
    \/ ResubscribeAttemptFails \/ ResubscribeLogs \/ ResubscribeHeadsFails \/ ResubscribeHeads
    \/ ReconnectBackfill \/ ReconnectBackfillFails

SpecReconnect == Init /\ [][NextReconnect]_vars

(***************************************************************************)
(* The read path.                                                          *)
(***************************************************************************)
ReadResult(addr, mismatch) == [addr |-> addr, mismatch |-> mismatch]

\* A plausible slip: the node lookup is made before the owner comparison.
ValidatorFeeRecipient_lookupFirst(minipools, nodes, pubkey, queryNodeAddr) ==
    IF pubkey \notin DOMAIN minipools THEN ReadResult(NoAddress, FALSE)
    ELSE LET nodeAddr == minipools[pubkey] IN
         IF nodeAddr \notin DOMAIN nodes THEN ReadResult(NoAddress, FALSE)
         ELSE IF queryNodeAddr # NoAddress /\ queryNodeAddr # nodeAddr
         THEN ReadResult(NoAddress, TRUE)
         ELSE IF nodes[nodeAddr].inSmoothingPool
         THEN ReadResult(SmoothingPoolAddress, FALSE)
         ELSE ReadResult(nodes[nodeAddr].feeDistributor, FALSE)

\* A plausible slip: the two fee recipients are swapped.
ValidatorFeeRecipient_swapped(minipools, nodes, pubkey, queryNodeAddr) ==
    IF pubkey \notin DOMAIN minipools THEN ReadResult(NoAddress, FALSE)
    ELSE LET nodeAddr == minipools[pubkey] IN
         IF queryNodeAddr # NoAddress /\ queryNodeAddr # nodeAddr
         THEN ReadResult(NoAddress, TRUE)
         ELSE IF nodeAddr \notin DOMAIN nodes THEN ReadResult(NoAddress, FALSE)
         ELSE IF nodes[nodeAddr].inSmoothingPool
         THEN ReadResult(nodes[nodeAddr].feeDistributor, FALSE)
         ELSE ReadResult(SmoothingPoolAddress, FALSE)

\* ValidatorFeeRecipient; queryNodeAddr = NoAddress is the nil pointer.
ValidatorFeeRecipient(minipools, nodes, pubkey, queryNodeAddr) ==
    IF pubkey \notin DOMAIN minipools THEN ReadResult(NoAddress, FALSE)
    ELSE LET nodeAddr == minipools[pubkey] IN
         IF queryNodeAddr # NoAddress /\ queryNodeAddr # nodeAddr
         THEN ReadResult(NoAddress, TRUE)
         ELSE IF nodeAddr \notin DOMAIN nodes THEN ReadResult(NoAddress, FALSE)
         ELSE IF nodes[nodeAddr].inSmoothingPool
         THEN ReadResult(SmoothingPoolAddress, FALSE)
         ELSE ReadResult(nodes[nodeAddr].feeDistributor, FALSE)

\* The arguments a caller passes: a known or unknown pubkey, and no claimed
\* node, a registered node or an address that is no node.
QueryPubkeys == Pubkeys \cup {"p3"}
QueryNodes == Nodes \cup {"n3", NoAddress}

\* A reader task calls ValidatorFeeRecipient with a pubkey and a claimed node
\* of the given sets.
ReadOf(pubkeys, queries) ==
    /\ \E pubkey \in pubkeys, q \in queries :
          LET r == ValidatorFeeRecipient(minipoolIndex, nodeIndex, pubkey, q) IN
          lastRead' = [called |-> TRUE, pubkey |-> pubkey, query |-> q,
                       addr |-> r.addr, mismatch |-> r.mismatch]
    /\ UNCHANGED <<warnings, visited>>
    /\ UNCHANGED <<subVars, deinitVars, loopVars>>
    /\ UNCHANGED <<envVars, events, newHeaders, cacheVars, initPc, initResult, ingPc,
                   attempt, histVars>>
    /\ UNCHANGED <<loadIdx, backfillVars>>

Read == ReadOf(QueryPubkeys, QueryNodes)

\* ForEachNode: Range calls the closure on the keys of nodeIndex in an order
\* that is not specified and stops after the first key the closure returns
\* false for.  accept is the set of addresses the closure returns true for;
\* the result is the set of the sets of keys the call can have visited.
ForEachNode(nodes, accept) ==
    IF DOMAIN nodes \subseteq accept
    THEN {DOMAIN nodes}
    ELSE {S \in SUBSET DOMAIN nodes : Cardinality(S \ accept) = 1}

\* A caller runs ForEachNode at any time, with a closure that returns true
\* for every node.
ForEachNodeCall ==
    /\ visited' \in ForEachNode(nodeIndex, Nodes)
    /\ UNCHANGED <<warnings, lastRead>>
    /\ UNCHANGED <<subVars, deinitVars, loopVars>>
    /\ UNCHANGED <<envVars, events, newHeaders, cacheVars, initPc, initResult, ingPc,
                   attempt, histVars>>
    /\ UNCHANGED <<loadIdx, backfillVars>>

\* The states of the indices a reader can meet: any set of nodes with any
\* pool flag and a distributor that is computed or still the zero value, any
\* set of pubkeys, each mapped to the node that created its minipool.
PubkeyOwner(pk) == MinipoolOwner(CHOOSE m \in Minipools : GetMinipoolPubkey(m) = pk)

PartialMaps(D, R) == UNION {[S -> R] : S \in SUBSET D}

NodeInfos == [inSmoothingPool : BOOLEAN, feeDistributor : Addresses \ {SmoothingPoolAddress}]

InitRead ==
    /\ chain = << <<>> >>
    /\ logSub = "live" /\ hdrSub = "live"
    /\ logPos = 1 /\ hdrPos = 1
    /\ disconnects = 0 /\ resubFailures = 0
    /\ events = <<>> /\ newHeaders = <<>>
    /\ nodeIndex \in {m \in PartialMaps(Nodes, NodeInfos) :
                         \A n \in DOMAIN m :
                            m[n].feeDistributor \in {ZeroAddress, GetDistributorAddress(n)}}
    /\ minipoolIndex \in {m \in PartialMaps(Pubkeys, Nodes) :
                             \A pk \in DOMAIN m : m[pk] = PubkeyOwner(pk)}
    /\ highestBlock = 1
    /\ initPc = "returned" /\ initResult = "ok"
    /\ ingPc = "select" /\ attempt = 0
    /\ pinBlock = 1 /\ backfillStop = 1 /\ reconnects = 0
    /\ fetchFailed = FALSE /\ fetchFailedBlocks = {} /\ backfillQueried = FALSE
    /\ lastFetchErr = FALSE /\ replayed = {}
    /\ loadIdx = 0 /\ bfPc = "call" /\ bfStop = 0 /\ bfLogs = <<>>
    /\ lastRead = NoRead /\ visited = {}
    /\ shutdown = FALSE /\ ethclientShutdownCb = 1 /\ held = 1
    /\ wg = 1 /\ deinitPc = "idle"
    /\ eventsClosed = FALSE /\ newHeadersClosed = FALSE
    /\ noMoreEvents = FALSE /\ noMoreHeaders = FALSE /\ shutdownRead = FALSE
    /\ received = NoReceive /\ calledCb = 0
    /\ warnings = {}

NextRead == Read

SpecRead == InitRead /\ [][NextRead]_vars

(***************************************************************************)
(* The tasks together: the task that calls Init, the goroutine it creates, *)
(* the task that calls Deinit, and the callers of ValidatorFeeRecipient    *)
(* and ForEachNode, on a chain of MaxTasksHead blocks.                     *)
(***************************************************************************)
MineTasks == head < MaxTasksHead /\ Mine

\* The calls of the reader in this specification: the pubkey of the first
\* minipool, with no claimed node.
TasksQueryPubkeys == {"p1"}
TasksQueryNodes == {NoAddress}

ReadTasks == ReadOf(TasksQueryPubkeys, TasksQueryNodes)

BackfillStep ==
    \/ BackfillHeader \/ BackfillFilterLogs \/ BackfillHandleEvent \/ BackfillFinish

InitTaskStep ==
    \/ InitGetNodes \/ InitLoadNode \/ InitLoadMinipools \/ InitSnapshotFails
    \/ ConnectSubscribeLogs \/ ConnectSubscribeLogsFails
    \/ ConnectSubscribeHeads \/ ConnectSubscribeHeadsFails
    \/ (initPc = "heads" /\ BackfillStep)
    \/ ConnectBackfill \/ ConnectBackfillFails \/ InitReturn

IngestorStep ==
    \/ IngestorStart \/ ReceiveEvent \/ IngestEvent \/ IngestHeader
    \/ ReceiveSubscriptionError \/ UnsubscribeOther
    \/ HandleSubscriptionError \/ HandleSubscriptionErrorShutdown
    \/ ObserveEventsClosed \/ ObserveHeadersClosed
    \/ ResubscribeFails \/ ResubscribeLogs \/ ResubscribeHeadsFails \/ ResubscribeHeads
    \/ (ingPc = "backfill" /\ BackfillStep)
    \/ ReconnectBackfill \/ ReconnectBackfillFails

DeinitStep ==
    \/ DeinitNoCallback \/ DeinitSetShutdown
    \/ DeinitUnsubscribeLogs \/ DeinitUnsubscribeHeads
    \/ DeinitCloseEvents \/ DeinitCloseHeaders \/ DeinitWait

ReaderStep == ReadTasks \/ ForEachNodeCall

NextTasks ==
    \/ MineTasks \/ DeliverLogs \/ DeliverHeader \/ Disconnect \/ SendOnClosedChannel
    \/ InitTaskStep \/ IngestorStep \/ DeinitStep \/ ReaderStep

SpecTasks == Init /\ [][NextTasks]_vars

(***************************************************************************)
(* The handlers on any event.  The subscription filters by contract and by *)
(* topic, but a log of the node manager with the minipool topic, and the   *)
(* reverse, pass the filter, and the handlers also provide for a contract  *)
(* or a topic outside the filter.                                          *)
(***************************************************************************)
UnknownContract == "otherContract"
unknownTopic == "Transfer(address,address,uint256)"

\* The topics each contract's handler handles.
HandledTopics(addr) ==
    IF addr = NodeManager THEN {nodeRegisteredTopic, smoothingPoolStatusChangedTopic}
    ELSE IF addr = MinipoolManager THEN {minipoolLaunchedTopic}
    ELSE {}

\* The events the goroutine can receive, all of one block: the logs of the
\* three kinds, and logs of every other contract and topic combination.
HandlerBlock == 2

ReceivedEvents ==
    {NodeRegisteredLog(n, HandlerBlock) : n \in Nodes}
    \cup {StateChangedLog(n, v, HandlerBlock) : n \in Nodes, v \in {0, 1}}
    \cup {MinipoolCreatedLog(m, HandlerBlock) : m \in Minipools}
    \cup {l \in {Log(a, t, x, NoAddress, 0, HandlerBlock) :
                    a \in {NodeManager, MinipoolManager, UnknownContract},
                    t \in {nodeRegisteredTopic, smoothingPoolStatusChangedTopic,
                           minipoolLaunchedTopic, unknownTopic},
                    x \in {"n1", "m1"}} :
            l.Topic0 \notin HandledTopics(l.Address)}

\* The goroutine in its select, after an Init on the genesis block, with one
\* or two events in the channel and the indices in any state.
InitHandler ==
    /\ chain = << <<>> >>
    /\ logSub = "live" /\ hdrSub = "live"
    /\ logPos = 1 /\ hdrPos = 1
    /\ disconnects = 0 /\ resubFailures = 0
    /\ events \in {<<e>> : e \in ReceivedEvents}
                  \cup {<<e, f>> : e \in ReceivedEvents, f \in ReceivedEvents}
    /\ newHeaders = <<>>
    /\ nodeIndex \in {m \in PartialMaps(Nodes, NodeInfos) :
                         \A n \in DOMAIN m :
                            m[n].feeDistributor \in {ZeroAddress, GetDistributorAddress(n)}}
    /\ minipoolIndex \in {m \in PartialMaps(Pubkeys, Nodes) :
                             \A pk \in DOMAIN m : m[pk] = PubkeyOwner(pk)}
    /\ highestBlock \in {HandlerBlock - 1, HandlerBlock + 1}
    /\ initPc = "returned" /\ initResult = "ok"
    /\ ingPc = "select" /\ attempt = 0
    /\ pinBlock = 1 /\ backfillStop = 1 /\ reconnects = 0
    /\ fetchFailed = FALSE /\ fetchFailedBlocks = {} /\ backfillQueried = FALSE
    /\ lastFetchErr = FALSE /\ replayed = {}
    /\ loadIdx = 0 /\ bfPc = "call" /\ bfStop = 0 /\ bfLogs = <<>>
    /\ lastRead = NoRead /\ visited = {}
    /\ shutdown = FALSE /\ ethclientShutdownCb = 1 /\ held = 1
    /\ wg = 1 /\ deinitPc = "idle"
    /\ eventsClosed = FALSE /\ newHeadersClosed = FALSE
    /\ noMoreEvents = FALSE /\ noMoreHeaders = FALSE /\ shutdownRead = FALSE
    /\ received = NoReceive /\ calledCb = 0
    /\ warnings = {}

NextHandler == ReceiveEvent \/ IngestEvent

SpecHandler == InitHandler /\ [][NextHandler]_vars

(***************************************************************************)
(* Reference run: the cache of a run that loaded the snapshot at the       *)
(* pinned block and then received every later log once, in block order,    *)
(* with every adapter call succeeding.                                     *)
(***************************************************************************)
SnapshotCache(c, pin) ==
    LET logs == FilterLogs(c, 1, pin) IN
    [nodeIndex |-> LoadedNodes(logs),
     minipoolIndex |-> LoadedMinipools(logs),
     highestBlock |-> pin]

UninterruptedRun(c, pin, upTo) ==
    ReplayEvents(SnapshotCache(c, pin), FilterLogs(c, pin + 1, upTo), {})

\* The ingestor is between two receives, the log channel is drained, and
\* the live stream has delivered every block the last back-fill covered.
Quiescent == ingPc = "select" /\ events = <<>> /\ logPos >= backfillStop

IndicesMatchUninterruptedRun ==
    LET ref == UninterruptedRun(chain, pinBlock, logPos) IN
    nodeIndex = ref.nodeIndex /\ minipoolIndex = ref.minipoolIndex

(***************************************************************************)
(* Claims.                                                                 *)
(***************************************************************************)

\* C1: highestBlock never decreases: after every step of the system its
\* value is greater than or equal to its value before the step.
C1_HighestBlockNeverDecreases == [][highestBlock' >= highestBlock]_vars

\* C2: whenever the ingestor is idle and no event is pending in the event
\* channel, the inSmoothingPool flag of every node in NodeIndex equals the
\* value of the latest on-chain state change of that node in a block at or
\* below highestBlock (the snapshot value if there is none after the pin).
C2_PoolFlagMatchesChain ==
    (ingPc = "select" /\ events = <<>>) =>
        \A n \in DOMAIN nodeIndex :
            nodeIndex[n].inSmoothingPool = ChainInPool(FilterLogs(chain, 1, highestBlock), n)

\* C3: after a subscription error, a successful reconnect and back-fill, and
\* with the event channel drained (every pubkey fetch having succeeded), the
\* indices equal those of a run that received every log after the pinned
\* block live, once, without interruption.
C3_ReconnectMatchesUninterruptedRun ==
    (Quiescent /\ reconnects >= 1 /\ ~fetchFailed) => IndicesMatchUninterruptedRun

\* C4: in Init both subscriptions are established before the back-fill, the
\* back-fill starts at the pinned block + 1, and (every pubkey fetch having
\* succeeded) once the channel is drained and the live stream has caught up
\* with the back-fill, the indices equal those of applying every log after
\* the pinned block exactly once in block order: nothing is missed, and a
\* log seen by both the back-fill and the live stream changes nothing.
C4_InitBackfillBridgesSnapshotAndStream ==
    /\ (initPc = "heads" /\ bfPc = "call") =>
          (logSub # "none" /\ hdrSub # "none" /\ highestBlock = pinBlock)
    /\ (initPc = "heads" /\ bfPc = "filter") => (backfillStart(highestBlock) = pinBlock + 1)
    /\ (Quiescent /\ reconnects = 0 /\ ~fetchFailed) => IndicesMatchUninterruptedRun

\* Witness of C4: without any reconnect the ingestor has handled, from the
\* live stream, a log that the initial back-fill had already applied, and
\* logs of blocks after the pinned block have changed both indices.
C4_Witness ==
    /\ Quiescent /\ reconnects = 0 /\ ~fetchFailed
    /\ pinBlock < highestBlock /\ highestBlock < backfillStop
    /\ DOMAIN minipoolIndex # DOMAIN SnapshotCache(chain, pinBlock).minipoolIndex
    /\ nodeIndex # SnapshotCache(chain, pinBlock).nodeIndex

\* C5: MinipoolIndex is append-only and stable: a pubkey that maps to a node
\* is still present and maps to the same node after every step, whichever
\* task takes it: a further MinipoolCreated event, the same event handled
\* again by a back-fill or from the channel, a reconnect, the shutdown.
C5_MinipoolIndexStable ==
    [][\A pk \in DOMAIN minipoolIndex :
          pk \in DOMAIN minipoolIndex' /\ minipoolIndex'[pk] = minipoolIndex[pk]]_vars

\* Witness of C5: a MinipoolCreated log whose pubkey the index already held
\* has been handled again by a reconnect back-fill, and one has been handled
\* again from the channel; then Deinit has run to its end and the goroutine
\* has exited, with the pubkey still in the index.
C5_Witness ==
    /\ replayed = {"backfill", "channel"}
    /\ reconnects >= 1
    /\ shutdown /\ deinitPc = "returned" /\ ingPc = "done"
    /\ DOMAIN minipoolIndex # {}

\* C6: after Init, every pubkey in MinipoolIndex maps to a node address that
\* is present in NodeIndex (on a chain where a node registers in a block
\* before any of its minipools is created).
C6_ReferentialIntegrity ==
    (initResult = "ok") =>
        \A pk \in DOMAIN minipoolIndex : minipoolIndex[pk] \in DOMAIN nodeIndex

\* C7: ValidatorFeeRecipient(p, q) returns mismatch = true if and only if p
\* is in MinipoolIndex, q is given and q differs from MinipoolIndex[p]; when
\* mismatch is true the returned address is nil, whether or not the owner
\* has a NodeIndex entry.
C7_MismatchIffOwnerDiffers ==
    lastRead.called =>
        /\ lastRead.mismatch <=>
              (/\ lastRead.pubkey \in DOMAIN minipoolIndex
               /\ lastRead.query # NoAddress
               /\ lastRead.query # minipoolIndex[lastRead.pubkey])
        /\ lastRead.mismatch => lastRead.addr = NoAddress

\* Witness of C7: a call with a wrong claimed node for a pubkey whose owner
\* has no NodeIndex entry returned mismatch.
C7_Witness ==
    /\ lastRead.called /\ lastRead.mismatch
    /\ minipoolIndex[lastRead.pubkey] \notin DOMAIN nodeIndex

\* What C8 says of one completed call.
ReadMatchesTable ==
    LET pk == lastRead.pubkey
        q == lastRead.query
    IN IF pk \notin DOMAIN minipoolIndex
       THEN lastRead.addr = NoAddress /\ ~lastRead.mismatch
       ELSE LET n == minipoolIndex[pk] IN
            (q = NoAddress \/ q = n) =>
               /\ ~lastRead.mismatch
               /\ lastRead.addr =
                     IF n \notin DOMAIN nodeIndex THEN NoAddress
                     ELSE IF nodeIndex[n].inSmoothingPool THEN SmoothingPoolAddress
                     ELSE nodeIndex[n].feeDistributor

\* C8: for a pubkey in MinipoolIndex whose owner is in NodeIndex and a
\* claimed node that is absent or the owner, ValidatorFeeRecipient returns
\* the smoothing-pool address when the owner is in the pool and the owner's
\* feeDistributor otherwise, with mismatch = false; it returns (nil, false)
\* when the pubkey or the owner is absent; the call changes neither index
\* nor highestBlock.
C8_ReadReturnsRecipientAndWritesNothing ==
    [][(lastRead' # lastRead) =>
          /\ ReadMatchesTable'
          /\ nodeIndex' = nodeIndex
          /\ minipoolIndex' = minipoolIndex
          /\ highestBlock' = highestBlock]_vars

\* Witness of C8: one call returned the smoothing-pool address for a pool
\* member queried with its owner as the claimed node.
C8_Witness ==
    /\ lastRead.called
    /\ lastRead.addr = SmoothingPoolAddress
    /\ lastRead.query = minipoolIndex[lastRead.pubkey]

\* C9: whenever ValidatorFeeRecipient returns a non-nil address for a
\* validator whose owning node is not in the smoothing pool, the address is
\* the node's deterministic fee-distributor address, never the zero address.
C9_SoloRecipientIsDistributor ==
    \A pk \in DOMAIN minipoolIndex :
        LET n == minipoolIndex[pk]
            r == ValidatorFeeRecipient(minipoolIndex, nodeIndex, pk, NoAddress)
        IN (r.addr # NoAddress /\ n \in DOMAIN nodeIndex /\ ~nodeIndex[n].inSmoothingPool)
              => (r.addr = GetDistributorAddress(n) /\ r.addr # ZeroAddress)

\* C10: Init returns success only if the snapshot was loaded, both
\* subscriptions were established, the initial back-fill succeeded and the
\* ingestor was started; a failure of any adapter call made during Init
\* makes Init return an error.
C10_InitSucceedsOnlyWhenConnected ==
    (initResult = "ok") =>
        /\ pinBlock > 0
        /\ logSub # "none" /\ hdrSub # "none"
        /\ backfillStop > 0
        /\ ingPc # "off"

\* C11: after Init has succeeded with pinned block B, every node registered
\* on chain at B is in NodeIndex, every pubkey of a minipool created at or
\* before B is in MinipoolIndex mapped to the minipool's node, and
\* highestBlock >= B; when the chain holds no node at B and no later event,
\* both indices are empty and ValidatorFeeRecipient returns (nil, false) for
\* every pubkey.
C11_SnapshotComplete ==
    (initResult = "ok") =>
        LET atPin == FilterLogs(chain, 1, pinBlock) IN
        /\ \A n \in ChainRegistered(atPin) : n \in DOMAIN nodeIndex
        /\ \A m \in ChainMinipools(atPin) :
              /\ GetMinipoolPubkey(m) \in DOMAIN minipoolIndex
              /\ minipoolIndex[GetMinipoolPubkey(m)] = MinipoolOwner(m)
        /\ highestBlock >= pinBlock
        /\ (AllLogs = <<>>) =>
              /\ nodeIndex = EmptyMap /\ minipoolIndex = EmptyMap
              /\ \A pk \in QueryPubkeys, q \in QueryNodes :
                    ValidatorFeeRecipient(minipoolIndex, nodeIndex, pk, q)
                       = ReadResult(NoAddress, FALSE)

\* Witness of C11: Init has succeeded with a snapshot that holds both nodes
\* and the minipool of the second, and the ingestor is in its loop.
C11_Witness ==
    /\ initResult = "ok" /\ ingPc = "select"
    /\ ChainRegistered(FilterLogs(chain, 1, pinBlock)) = Nodes
    /\ "m2" \in ChainMinipools(FilterLogs(chain, 1, pinBlock))
    /\ "p2" \in DOMAIN minipoolIndex

\* backfillEvents fetches the head: HeaderByNumber has returned it.
BackfillFetchesHead == InBackfill /\ bfPc = "call" /\ bfPc' # "call"

\* backfillEvents has taken its early return (no query was issued) and the
\* caller has not resumed yet.
BackfillReturningEarly == InBackfill /\ bfPc = "return" /\ ~backfillQueried

\* The caller of backfillEvents resumes with a nil error.
BackfillSucceeds ==
    \/ initPc = "heads" /\ ingPc' = "spawned"
    \/ ingPc = "backfill" /\ ingPc' = "select"

\* C19: a back-fill invoked when the current head is lower than
\* highestBlock + 1 issues no historical-log query, returns success and leaves
\* NodeIndex, MinipoolIndex and highestBlock unchanged.
C19_BackfillWithoutGapIsNoOp ==
    [][/\ (BackfillFetchesHead /\ head < highestBlock + 1) =>
             (bfPc' = "return" /\ ~backfillQueried' /\ cacheVars' = cacheVars)
       /\ BackfillReturningEarly =>
             /\ ~backfillQueried' /\ cacheVars' = cacheVars
             /\ (bfPc' # "return") => BackfillSucceeds]_vars

\* Witness of C19: a reconnect back-fill has returned success without a
\* query, after an earlier back-fill that had replayed logs into the indices.
C19_Witness ==
    /\ reconnects >= 1 /\ ingPc = "select"
    /\ ~backfillQueried
    /\ backfillStop = highestBlock
    /\ nodeIndex # SnapshotCache(chain, pinBlock).nodeIndex

\* C12: when Deinit returns after a successful Init that started the
\* ingestor, every event that was pending in the event channel has been
\* applied and the ingestor task has exited, whatever the scheduling of the
\* ingestor against the caller of Deinit, a Deinit that runs before the
\* ingestor's first step included.
C12_DeinitDrainsPendingEvents ==
    (deinitPc = "returned" /\ ingPc # "off") => (events = <<>> /\ ingPc = "done")

\* Deinit has set shutdown, called the unsubscribe callback and closed both
\* channels, and the goroutine it waits for exists.
DeinitClosedAll ==
    /\ deinitPc = "wait"
    /\ shutdown /\ eventsClosed /\ newHeadersClosed

\* C13: once Deinit has set shutdown, invoked the unsubscribe callback and
\* closed both channels, the select loop eventually exits and Deinit's wait
\* returns (a ready select case being eventually chosen); the loop exits
\* only when both the event channel and the header channel have been
\* observed closed and drained.
C13_LoopExitsAfterBothClosed ==
    /\ [][(ingPc # "done" /\ ingPc' = "done") =>
             /\ noMoreEvents' /\ noMoreHeaders'
             /\ eventsClosed /\ newHeadersClosed
             /\ events = <<>> /\ newHeaders = <<>>]_vars
    /\ DeinitClosedAll ~> (ingPc = "done" /\ deinitPc = "returned")

\* An attempt of the retry loop in which SubscribeFilterLogs succeeds and
\* SubscribeNewHead fails.
HeaderResubscribeFails ==
    ingPc = "resubscribed" /\ ingPc' # "resubscribed" /\ hdrSub' # "live"

\* C14: when the log re-subscription of an attempt succeeds and the header
\* re-subscription fails, the attempt is counted as failed and the
\* Reconnector goes on to the next attempt (while fewer than 10 have been
\* made) instead of terminating the process.
C14_HeaderFailureIsRetried ==
    [][(HeaderResubscribeFails /\ attempt + 1 < reconnectRetries) =>
          (ingPc' = "reconnect" /\ attempt' = attempt + 1)]_vars

\* C15: one Reconnector invocation makes at most 10 log re-subscription
\* attempts; it reaches the fatal exit exactly when the tenth attempt fails or
\* the back-fill after a successful re-subscription fails; otherwise it
\* returns to the select loop with both subscription handles replaced and
\* the back-fill up to the head completed, no event or header having been
\* received in between.
C15_ReconnectorOutcomes ==
    [][/\ attempt' <= reconnectRetries
       /\ (ingPc = "reconnect" /\ attempt' = reconnectRetries) => ingPc' = "panic"
       /\ (ingPc # "panic" /\ ingPc' = "panic") =>
             \/ ingPc = "reconnect" /\ attempt' = reconnectRetries
             \/ ingPc = "backfill"
       /\ (ingPc = "backfill" /\ ingPc' = "select") =>
             /\ held' = held + 1 /\ ethclientShutdownCb' = held'
             /\ backfillStop' = bfStop /\ highestBlock' >= bfStop
       /\ (ingPc \in {"reconnect", "resubscribed", "backfill"}) =>
             /\ Len(events') >= Len(events)
             /\ Len(newHeaders') >= Len(newHeaders)]_vars

\* The goroutine, having taken an Err() case of its select and unsubscribed
\* the other subscription, calls handleSubscriptionError, which reads
\* e.shutdown.
ReconnectorEntered ==
    /\ ingPc = "entry"
    /\ HandleSubscriptionError \/ HandleSubscriptionErrorShutdown

\* The Reconnector is entered with the shutdown flag set: its read of
\* e.shutdown at line 269 returns true.
ReconnectorEnteredInShutdown == ReconnectorEntered /\ shutdownRead'

\* C16: when the Reconnector is entered with the shutdown flag set it returns
\* immediately: no re-subscription attempt is made, no back-fill runs, the
\* fatal exit is not reached, and the subscription handles, the stored
\* unsubscribe callback, both indices and highestBlock are left unchanged.
\* The flag is set for the Reconnector when its read returns true, which it
\* does whenever the goroutine has received anything Deinit produced after
\* writing the flag.
C16_ShutdownReturnsImmediately ==
    [][/\ (ReconnectorEntered /\ shutdown /\ ShutdownOrdered) => shutdownRead'
       /\ ReconnectorEnteredInShutdown =>
             /\ ingPc' \in {"select", "done"}
             /\ attempt' = attempt /\ resubFailures' = resubFailures
             /\ reconnects' = reconnects /\ backfillStop' = backfillStop
             /\ backfillQueried' = backfillQueried
             /\ held' = held /\ ethclientShutdownCb' = ethclientShutdownCb
             /\ logSub' # "live" /\ hdrSub' # "live"
             /\ logSub' = logSub /\ hdrSub' = hdrSub
             /\ cacheVars' = cacheVars]_vars

\* Witness of C16: an error the subscription itself reported was received;
\* Deinit had set the flag by the time the Reconnector read it, and had not
\* yet called the callback; the read of the flag returned true and the
\* goroutine is back at its select, with no attempt made.
C16_Witness ==
    /\ shutdownRead /\ shutdown /\ deinitPc = "shutdown"
    /\ disconnects = 1 /\ logSub # "live" /\ hdrSub # "live"
    /\ ingPc = "select" /\ attempt = 0 /\ resubFailures = 0 /\ reconnects = 0

\* handleEvent returns for the event the goroutine received from the event
\* channel.
HandlesReceivedEvent == received.kind = "event" /\ received'.kind = "none"

\* The goroutine handles a state change, received from the event channel,
\* of a node that is not in NodeIndex.
ReceivesStateChangeOfAbsentNode ==
    /\ HandlesReceivedEvent
    /\ received.event.Address = NodeManager
    /\ received.event.Topic0 = smoothingPoolStatusChangedTopic
    /\ received.event.Topic1 \notin DOMAIN nodeIndex

\* C17: handling NodeSmoothingPoolStateChanged(n, v) for a node n absent
\* from NodeIndex inserts an entry for n with the feeDistributor computed
\* through the adapter and inSmoothingPool = v, so that n is in NodeIndex
\* afterwards.
C17_StateChangeOfAbsentNodeInsertsIt ==
    [][ReceivesStateChangeOfAbsentNode =>
          LET n == received.event.Topic1 IN
          /\ n \in DOMAIN nodeIndex'
          /\ nodeIndex'[n] = [inSmoothingPool |-> (received.event.Data = 1),
                              feeDistributor |-> GetDistributorAddress(n)]]_vars

\* The goroutine handles an event, received from the event channel, that
\* handleEvent has no handler for.
ReceivesUnhandledEvent ==
    /\ HandlesReceivedEvent
    /\ received.event.Topic0 \notin HandledTopics(received.event.Address)

\* C18: an event whose contract is neither NodeManager nor MinipoolManager,
\* or whose first topic is not one its contract's handler handles, leaves
\* NodeIndex and MinipoolIndex unchanged, does not stop the ingestor, and
\* sets highestBlock to the event's block number.
C18_UnhandledEventOnlyMovesHighestBlock ==
    [][ReceivesUnhandledEvent =>
          /\ nodeIndex' = nodeIndex /\ minipoolIndex' = minipoolIndex
          /\ highestBlock' = received.event.BlockNumber
          /\ ingPc' = "select"]_vars

\* Witness of C18: an event of an unknown contract and an event with an
\* unhandled topic have been received, with nodes and pubkeys in the indices
\* and highestBlock moved to their block.
C18_Witness ==
    /\ warnings = {"unknown contract", "unknown topic"}
    /\ events = <<>> /\ ingPc = "select"
    /\ highestBlock = HandlerBlock
    /\ DOMAIN nodeIndex = Nodes /\ DOMAIN minipoolIndex = Pubkeys

\* C20: NodeIndex, MinipoolIndex and highestBlock have one writer at a time.
\* A step that changes one of them is a step of the task that runs Init,
\* taken before the goroutine exists, or a step of the goroutine (its
\* reconnect back-fill included); once the goroutine exists the task of Init
\* changes none of them, and no step of Deinit, ValidatorFeeRecipient or
\* ForEachNode changes them.
C20_SingleWriter ==
    [][/\ (cacheVars' # cacheVars) =>
              \/ InitTaskStep /\ ingPc = "off"
              \/ IngestorStep /\ ingPc \notin {"off", "spawned"} /\ initPc \in {"spawned", "returned"}
       /\ (InitTaskStep /\ ingPc # "off") => (cacheVars' = cacheVars)
       /\ (DeinitStep \/ ReaderStep) => (cacheVars' = cacheVars)]_vars

\* Witness of C20: the task of Init has written highestBlock from the
\* snapshot, the goroutine has written the node index and highestBlock after
\* Init returned (the highest block is beyond the block the initial
\* back-fill stopped at), Deinit has run to its end, and both readers have
\* been called, ForEachNode on a non-empty index.
C20_Witness ==
    /\ initPc = "returned" /\ deinitPc = "returned" /\ ingPc = "done"
    /\ pinBlock > 0 /\ highestBlock > backfillStop
    /\ DOMAIN nodeIndex # {}
    /\ lastRead.called /\ visited # {}

\* The goroutine handles a MinipoolCreated event, received from the event
\* channel, and the fetch of the minipool's pubkey fails.
ReceivesMinipoolEventFetchFails ==
    /\ HandlesReceivedEvent
    /\ received.event.Address = MinipoolManager
    /\ received.event.Topic0 = minipoolLaunchedTopic
    /\ lastFetchErr'

\* The blocks passed to FilterLogs by the call of the reconnect back-fill
\* that ends in this step, whether the call answers with the logs or with
\* an error.
ReconnectBackfillBlocks ==
    IF ingPc = "backfill" /\ bfPc = "filter" /\ bfPc' # "filter"
    THEN backfillStart(highestBlock)..bfStop
    ELSE {}

\* C21: when the pubkey fetch fails while a MinipoolCreated event is
\* handled, both indices stay as they were, the goroutine stays in its
\* loop and highestBlock is the event's block number; and no later
\* reconnect back-fill queries the block of such an event again.
C21_FailedFetchIsSkippedForGood ==
    [][/\ ReceivesMinipoolEventFetchFails =>
              /\ nodeIndex' = nodeIndex /\ minipoolIndex' = minipoolIndex
              /\ ingPc' = "select"
              /\ highestBlock' = received.event.BlockNumber
       /\ ReconnectBackfillBlocks \cap fetchFailedBlocks = {}]_vars

\* Deinit has invoked the unsubscribe callback and closed both channels.
DeinitClosedChannels ==
    /\ deinitPc \in {"wait", "returned"}
    /\ eventsClosed /\ newHeadersClosed

\* C22: once Deinit has invoked the unsubscribe callback and closed both
\* channels, no step makes a subscription live and no step replaces
\* e.ethclientShutdownCb, and no live subscription is attached to a closed
\* channel.
C22_NoSubscriptionAfterDeinit ==
    [][DeinitClosedChannels =>
          /\ (logSub' = "live") => (logSub = "live")
          /\ (hdrSub' = "live") => (hdrSub = "live")
          /\ ethclientShutdownCb' = ethclientShutdownCb
          /\ ~(eventsClosed' /\ logSub' = "live")
          /\ ~(newHeadersClosed' /\ hdrSub' = "live")]_vars

====
